---- MODULE Spec2Model ----
(***************************************************************************)
(* Model of TrimReads (src/TrimReads/src/trimreads/trimreads.py).          *)
(*                                                                         *)
(* A nucleotide sequence is a TLA+ sequence of one-letter strings.  A      *)
(* quality string is a sequence of character codes (the value ord() gives  *)
(* for each character), so that phred_to_score really subtracts the        *)
(* Sanger offset.  Python indices are 0-based; element i of a Python list  *)
(* s is s[i + 1] here.  A Python tuple (a, b) is <<a, b>>.                 *)
(*                                                                         *)
(* Four specifications share the variables:                                *)
(*   Spec      the command-line run: main() and the loop of process_fastq  *)
(*   SpecTrim  base_trim and window_trim applied to drawn arguments        *)
(*   SpecCodec phred_to_score and score_to_phred applied to drawn values   *)
(*   SpecAll   the behaviours of Spec and those of SpecTrim                *)
(***************************************************************************)
EXTENDS Integers, Sequences, FiniteSets, TLC

VARIABLES pc, args, input_exists, infile, pos, stats, output_handle, outfile,
          stderr, call, ret, prev

vars == <<pc, args, input_exists, infile, pos, stats, output_handle, outfile,
          stderr, call, ret, prev>>

streamVars ==
    <<args, input_exists, infile, pos, stats, output_handle, outfile, stderr>>

trimVars == <<call, ret, prev>>

(***************************************************************************)
(* Bounds of the model.                                                    *)
(***************************************************************************)
MaxLen == 4

MaxWindow == 3

MaxReadLen == 3

MaxReads == 2

(***************************************************************************)
(* Python helpers.                                                         *)
(***************************************************************************)
\* an Optional[int] argument: None, or Some(x) for the integer x
None == <<>>

Some(x) == <<x>>

Value(opt) == opt[1]

Min(a, b) == IF a <= b THEN a ELSE b

\* s[a:b] for 0 <= a, 0 <= b (Python clamps the slice to the list)
PySlice(s, a, b) ==
    IF a >= Min(b, Len(s)) THEN <<>> ELSE SubSeq(s, a + 1, Min(b, Len(s)))

\* s[-n:] for 1 <= n
PyLast(s, n) ==
    IF n >= Len(s) THEN s ELSE SubSeq(s, Len(s) - n + 1, Len(s))

RECURSIVE PySum(_)
PySum(s) == IF s = <<>> THEN 0 ELSE Head(s) + PySum(Tail(s))

\* DequeAppend on a deque made without maxlen: nothing is dropped
DequeAppend_Unbounded(window, x, maxlen) == window \o <<x>>

\* deque(maxlen=maxlen).append(x): a full deque drops its leftmost element
DequeAppend(window, x, maxlen) ==
    IF Len(window) >= maxlen THEN Tail(window) \o <<x>> ELSE window \o <<x>>

\* DequeAppendLeft doing what append does: x enters on the right
DequeAppendLeft_AppendsRight(window, x, maxlen) ==
    IF Len(window) >= maxlen THEN Tail(window) \o <<x>> ELSE window \o <<x>>

\* deque(maxlen=maxlen).appendleft(x): a full deque drops its rightmost element
DequeAppendLeft(window, x, maxlen) ==
    IF Len(window) >= maxlen
    THEN <<x>> \o SubSeq(window, 1, Len(window) - 1)
    ELSE <<x>> \o window

(***************************************************************************)
(* Quality codec.                                                          *)
(***************************************************************************)
PhredOffset == 33

phred_to_score(char) == char - PhredOffset

\* score_to_phred with the offset of the Illumina 1.3 encoding
score_to_phred_Phred64(score) == score + 64

score_to_phred(score) == score + PhredOffset

\* the pair "", "" returned for a discarded read
EmptyPair == <<<<>>, <<>>>>

(***************************************************************************)
(* base_trim                                                               *)
(***************************************************************************)
\* BaseLeftScan with the first qualifying base left out of the span
RECURSIVE BaseLeftScan_SkipsFirst(_, _, _, _)
BaseLeftScan_SkipsFirst(qual_chars, threshold, n, i) ==
    IF i >= n THEN 0
    ELSE IF phred_to_score(qual_chars[i + 1]) >= threshold THEN i + 1
    ELSE BaseLeftScan_SkipsFirst(qual_chars, threshold, n, i + 1)

\* the loop "for i in range(len(seq_chars))" entered at index i; n = len(seq_chars)
RECURSIVE BaseLeftScan(_, _, _, _)
BaseLeftScan(qual_chars, threshold, n, i) ==
    IF i >= n THEN 0
    ELSE IF phred_to_score(qual_chars[i + 1]) >= threshold THEN i
    ELSE BaseLeftScan(qual_chars, threshold, n, i + 1)

\* BaseRightScan with the strict comparison score > threshold
RECURSIVE BaseRightScan_Strict(_, _, _, _)
BaseRightScan_Strict(qual_chars, threshold, n, i) ==
    IF i < 0 THEN n - 1
    ELSE IF phred_to_score(qual_chars[i + 1]) > threshold THEN i
    ELSE BaseRightScan_Strict(qual_chars, threshold, n, i - 1)

\* BaseRightScan falling back to -1, before the read, when no base qualifies
RECURSIVE BaseRightScan_FallsBackBefore(_, _, _, _)
BaseRightScan_FallsBackBefore(qual_chars, threshold, n, i) ==
    IF i < 0 THEN -1
    ELSE IF phred_to_score(qual_chars[i + 1]) >= threshold THEN i
    ELSE BaseRightScan_FallsBackBefore(qual_chars, threshold, n, i - 1)

\* the loop "for i in range(len(seq_chars)-1, -1, -1)" entered at index i
RECURSIVE BaseRightScan(_, _, _, _)
BaseRightScan(qual_chars, threshold, n, i) ==
    IF i < 0 THEN n - 1
    ELSE IF phred_to_score(qual_chars[i + 1]) >= threshold THEN i
    ELSE BaseRightScan(qual_chars, threshold, n, i - 1)

\* base_trim slicing [start_index:end_index], the last kept base left out
base_trim_ExclusiveEnd(sequence, quality, threshold) ==
    LET n == Len(sequence)
        start_index == BaseLeftScan(quality, threshold, n, 0)
        end_index == BaseRightScan(quality, threshold, n, n - 1)
    IN  IF start_index > end_index
        THEN EmptyPair
        ELSE <<PySlice(sequence, start_index, end_index),
               PySlice(quality, start_index, end_index)>>

\* base_trim slicing the quality [start_index:end_index], one short
base_trim_QualityExclusiveEnd(sequence, quality, threshold) ==
    LET n == Len(sequence)
        start_index == BaseLeftScan(quality, threshold, n, 0)
        end_index == BaseRightScan(quality, threshold, n, n - 1)
    IN  IF start_index > end_index
        THEN EmptyPair
        ELSE <<PySlice(sequence, start_index, end_index + 1),
               PySlice(quality, start_index, end_index)>>

base_trim(sequence, quality, threshold) ==
    LET n == Len(sequence)
        start_index == BaseLeftScan(quality, threshold, n, 0)
        end_index == BaseRightScan(quality, threshold, n, n - 1)
    IN  IF start_index > end_index
        THEN EmptyPair
        ELSE <<PySlice(sequence, start_index, end_index + 1),
               PySlice(quality, start_index, end_index + 1)>>

(***************************************************************************)
(* window_trim                                                             *)
(***************************************************************************)
NotFound == -1

\* sum(window) / window_size >= threshold, for window_size > 0: the real
\* quotient is compared, which for integers is the cross-multiplied test
WindowAvgGE(window, window_size, threshold) ==
    PySum(window) >= threshold * window_size

\* WindowLeftScan reporting the index after the first index of the window
RECURSIVE WindowLeftScan_SecondIndex(_, _, _, _, _)
WindowLeftScan_SecondIndex(scores, window, window_size, threshold, i) ==
    IF i >= Len(scores) THEN NotFound
    ELSE LET w == DequeAppend(window, scores[i + 1], window_size)
         IN  IF WindowAvgGE(w, window_size, threshold)
             THEN i - window_size + 2
             ELSE WindowLeftScan_SecondIndex(scores, w, window_size, threshold, i + 1)

\* the loop "for i in range(window_size, len(scores))" entered at index i;
\* NotFound when it ends with found = False
RECURSIVE WindowLeftScan(_, _, _, _, _)
WindowLeftScan(scores, window, window_size, threshold, i) ==
    IF i >= Len(scores) THEN NotFound
    ELSE LET w == DequeAppend(window, scores[i + 1], window_size)
         IN  IF WindowAvgGE(w, window_size, threshold)
             THEN i - window_size + 1
             ELSE WindowLeftScan(scores, w, window_size, threshold, i + 1)

\* WindowRightScan reporting the first index of the window, not the last
RECURSIVE WindowRightScan_FirstIndex(_, _, _, _, _)
WindowRightScan_FirstIndex(scores, window, window_size, threshold, i) ==
    IF i < 0 THEN NotFound
    ELSE LET w == DequeAppendLeft(window, scores[i + 1], window_size)
         IN  IF WindowAvgGE(w, window_size, threshold)
             THEN i
             ELSE WindowRightScan_FirstIndex(scores, w, window_size, threshold, i - 1)

\* the loop "for i in range(len(scores)-window_size-1, -1, -1)" entered at i
RECURSIVE WindowRightScan(_, _, _, _, _)
WindowRightScan(scores, window, window_size, threshold, i) ==
    IF i < 0 THEN NotFound
    ELSE LET w == DequeAppendLeft(window, scores[i + 1], window_size)
         IN  IF WindowAvgGE(w, window_size, threshold)
             THEN i + window_size - 1
             ELSE WindowRightScan(scores, w, window_size, threshold, i - 1)

WindowStart(scores, window_size, threshold) ==
    LET window == PySlice(scores, 0, window_size)
    IN  IF WindowAvgGE(window, window_size, threshold)
        THEN 0
        ELSE WindowLeftScan(scores, window, window_size, threshold, window_size)

WindowEnd(scores, window_size, threshold) ==
    LET window == PyLast(scores, window_size)
    IN  IF WindowAvgGE(window, window_size, threshold)
        THEN Len(scores) - 1
        ELSE WindowRightScan(scores, window, window_size, threshold,
                             Len(scores) - window_size - 1)

Scores(quality) == [k \in 1..Len(quality) |-> phred_to_score(quality[k])]

\* the statements of window_trim after its length test
WindowTrimBody(sequence, quality, window_size, threshold) ==
    LET scores == Scores(quality)
        start_index == WindowStart(scores, window_size, threshold)
        end_index == WindowEnd(scores, window_size, threshold)
    IN  IF start_index = NotFound THEN EmptyPair
        ELSE IF end_index = NotFound THEN EmptyPair
        ELSE <<PySlice(sequence, start_index, end_index + 1),
               PySlice(quality, start_index, end_index + 1)>>

\* window_trim without the test for a read shorter than the window
window_trim_NoShortCircuit(sequence, quality, window_size, threshold) ==
    WindowTrimBody(sequence, quality, window_size, threshold)

\* window_trim without the two "if not found" returns: the boundaries keep
\* their initial values 0 and len(sequence) - 1
window_trim_NoDiscard(sequence, quality, window_size, threshold) ==
    IF Len(sequence) < window_size
    THEN <<sequence, quality>>
    ELSE LET scores == Scores(quality)
             s0 == WindowStart(scores, window_size, threshold)
             e0 == WindowEnd(scores, window_size, threshold)
             start_index == IF s0 = NotFound THEN 0 ELSE s0
             end_index == IF e0 = NotFound THEN Len(sequence) - 1 ELSE e0
         IN  <<PySlice(sequence, start_index, end_index + 1),
               PySlice(quality, start_index, end_index + 1)>>

window_trim(sequence, quality, window_size, threshold) ==
    IF Len(sequence) < window_size
    THEN <<sequence, quality>>
    ELSE WindowTrimBody(sequence, quality, window_size, threshold)

(***************************************************************************)
(* Arguments drawn for the trimming functions.                             *)
(***************************************************************************)
Bases == {"A", "C"}

\* quality characters of Phred scores 5 and 40
QualChars == {score_to_phred(5), score_to_phred(40)}

Thresholds == {5, 20, 25, 41}

WindowSizes == 1..MaxWindow

\* reads with len(sequence) == len(quality) of length 0..n
ReadsUpTo(n) ==
    UNION {[1..k -> Bases] \X [1..k -> QualChars] : k \in 0..n}

\* "ACGTACGTAC" with scores [10,10,10,30,30,30,30,10,10,10]
LiteralSequence == <<"A", "C", "G", "T", "A", "C", "G", "T", "A", "C">>

LiteralQuality ==
    [k \in 1..10 |-> IF k \in 4..7 THEN score_to_phred(30) ELSE score_to_phred(10)]

LiteralCall ==
    [sequence |-> LiteralSequence, quality |-> LiteralQuality,
     threshold |-> 25, window_size |-> 3]

TrimCalls ==
    {[sequence |-> r[1], quality |-> r[2], threshold |-> t, window_size |-> w] :
        r \in ReadsUpTo(MaxLen), t \in Thresholds, w \in WindowSizes}
    \cup {LiteralCall}

NoRet == [fn |-> "none", out |-> EmptyPair]

NoCall == [sequence |-> <<>>, quality |-> <<>>, threshold |-> 0, window_size |-> 1]

NoArgs ==
    [base_threshold |-> None, window_size |-> None,
     window_threshold |-> None, min_length |-> 0]

ZeroStats == [total_reads |-> 0, passed_reads |-> 0, discarded_reads |-> 0]

StreamIdle ==
    /\ args = NoArgs
    /\ input_exists = FALSE
    /\ infile = <<>>
    /\ pos = 0
    /\ stats = ZeroStats
    /\ output_handle = "none"
    /\ outfile = <<>>
    /\ stderr = <<>>

(***************************************************************************)
(* The command-line run.  The input file is a sequence of FASTQ records,   *)
(* each the four lines one loop iteration reads (after rstrip); a header   *)
(* is a sequence of characters, and an empty header line ends the loop as  *)
(* the end of the file does.  stderr holds the messages written to         *)
(* sys.stderr.                                                             *)
(***************************************************************************)
ValidHeader == <<"@", "r">>

BadHeader == <<"r">>

PlusLine == <<"+">>

FastqRecord(header, sequence, quality) ==
    [header |-> header, sequence |-> sequence,
     plus_line |-> PlusLine, quality |-> quality]

Q(score, n) == [k \in 1..n |-> score_to_phred(score)]

\* "AAAA" with every score 5, and with every score 40
LowAAAA == FastqRecord(ValidHeader, <<"A", "A", "A", "A">>, Q(5, 4))

HighAAAA == FastqRecord(ValidHeader, <<"A", "A", "A", "A">>, Q(40, 4))

\* both end bases score 40, one inner base scores 5
DipRead ==
    FastqRecord(ValidHeader, <<"A", "C", "A", "C">>,
                <<score_to_phred(40), score_to_phred(40),
                  score_to_phred(5), score_to_phred(40)>>)

InvalidRecords ==
    {FastqRecord(BadHeader, <<"A">>, Q(40, 1)),
     FastqRecord(ValidHeader, <<"A", "C">>, Q(40, 1)),
     FastqRecord(ValidHeader, <<"A">>, Q(40, 2))}

BlankRecord == FastqRecord(<<>>, <<>>, <<>>)

\* records named "s", whose "+" line repeats the name: one of high quality
\* throughout, one whose first base scores 5
NamedRecords ==
    {[header |-> <<"@", "s">>, sequence |-> <<"A", "C", "G">>,
      plus_line |-> <<"+", "s">>, quality |-> Q(40, 3)],
     [header |-> <<"@", "s">>, sequence |-> <<"A", "C", "G">>,
      plus_line |-> <<"+", "s">>,
      quality |-> <<score_to_phred(5), score_to_phred(40), score_to_phred(40)>>]}

\* the first k letters of ACGTACGT...: the code never looks at a nucleotide,
\* it only slices the sequence, and these letters tell the positions apart
PatternSequence(k) ==
    [i \in 1..k |-> <<"A", "C", "G", "T">>[((i - 1) % 4) + 1]]

\* valid records of length 0..n, every combination of quality characters
PatternRecords(n) ==
    UNION {{FastqRecord(ValidHeader, PatternSequence(k), q) :
               q \in [1..k -> QualChars]} : k \in 0..n}

Records ==
    PatternRecords(MaxReadLen)
    \cup {LowAAAA, HighAAAA, DipRead, BlankRecord}
    \cup InvalidRecords
    \cup NamedRecords

Streams == UNION {[1..k -> Records] : k \in 0..MaxReads}

ArgsSet ==
    [base_threshold : {None, Some(20)}, window_size : {None, Some(2)},
     window_threshold : {None, Some(25)}, min_length : {1, 3}]

\* header.startswith('@')
StartsWithAt(header) == Len(header) >= 1 /\ header[1] = "@"

\* WindowArgsError with only the first of the two tests
WindowArgsError_FirstTestOnly(a) ==
    a.window_size # None /\ a.window_threshold = None

\* main(): the two sys.exit tests on --window_size / --window_threshold
WindowArgsError(a) ==
    \/ (a.window_size # None /\ a.window_threshold = None)
    \/ (a.window_threshold # None /\ a.window_size = None)

Outcome(kind, reason, sequence, quality) ==
    [kind |-> kind, reason |-> reason, sequence |-> sequence, quality |-> quality]

\* TooShort that filters out only an empty read
TooShort_EmptyOnly(sequence, min_length) == Len(sequence) < 1

\* "if len(sequence) < min_length"
TooShort(sequence, min_length) == Len(sequence) < min_length

\* ProcessRecord calling window_trim on the record as read, not on the
\* result of base_trim
ProcessRecord_WindowOnOriginal(rec, a) ==
    IF ~StartsWithAt(rec.header)
    THEN Outcome("skipped", "invalid_header", rec.sequence, rec.quality)
    ELSE IF Len(rec.sequence) # Len(rec.quality)
    THEN Outcome("skipped", "length_mismatch", rec.sequence, rec.quality)
    ELSE
      LET based == IF a.base_threshold # None
                   THEN base_trim(rec.sequence, rec.quality, Value(a.base_threshold))
                   ELSE <<rec.sequence, rec.quality>>
      IN  IF a.base_threshold # None /\ based[1] = <<>>
          THEN Outcome("discarded", "base_trim", based[1], based[2])
          ELSE
            LET windowed ==
                  IF a.window_size # None /\ a.window_threshold # None
                  THEN window_trim(rec.sequence, rec.quality,
                                   Value(a.window_size),
                                   Value(a.window_threshold))
                  ELSE based
            IN  IF /\ a.window_size # None /\ a.window_threshold # None
                   /\ windowed[1] = <<>>
                THEN Outcome("discarded", "window_trim", windowed[1], windowed[2])
                ELSE IF TooShort(windowed[1], a.min_length)
                THEN Outcome("discarded", "min_length", windowed[1], windowed[2])
                ELSE Outcome("passed", "written", windowed[1], windowed[2])

\* the body of the loop of process_fastq after the four readline calls:
\* which way the record leaves the iteration, and with what sequence/quality
ProcessRecord(rec, a) ==
    IF ~StartsWithAt(rec.header)
    THEN Outcome("skipped", "invalid_header", rec.sequence, rec.quality)
    ELSE IF Len(rec.sequence) # Len(rec.quality)
    THEN Outcome("skipped", "length_mismatch", rec.sequence, rec.quality)
    ELSE
      LET based == IF a.base_threshold # None
                   THEN base_trim(rec.sequence, rec.quality, Value(a.base_threshold))
                   ELSE <<rec.sequence, rec.quality>>
      IN  IF a.base_threshold # None /\ based[1] = <<>>
          THEN Outcome("discarded", "base_trim", based[1], based[2])
          ELSE
            LET windowed ==
                  IF a.window_size # None /\ a.window_threshold # None
                  THEN window_trim(based[1], based[2],
                                   Value(a.window_size),
                                   Value(a.window_threshold))
                  ELSE based
            IN  IF /\ a.window_size # None /\ a.window_threshold # None
                   /\ windowed[1] = <<>>
                THEN Outcome("discarded", "window_trim", windowed[1], windowed[2])
                ELSE IF TooShort(windowed[1], a.min_length)
                THEN Outcome("discarded", "min_length", windowed[1], windowed[2])
                ELSE Outcome("passed", "written", windowed[1], windowed[2])

\* StatsAfter without the increment of the minimum-length branch
StatsAfter_MinLengthUncounted(s, o) ==
    [total_reads |-> s.total_reads + 1,
     passed_reads |-> s.passed_reads + (IF o.kind = "passed" THEN 1 ELSE 0),
     discarded_reads |->
         s.discarded_reads
         + (IF o.kind = "discarded" /\ o.reason # "min_length" THEN 1 ELSE 0)]

\* StatsAfter counting a skipped record as discarded
StatsAfter_SkippedDiscarded(s, o) ==
    [total_reads |-> s.total_reads + 1,
     passed_reads |-> s.passed_reads + (IF o.kind = "passed" THEN 1 ELSE 0),
     discarded_reads |->
         s.discarded_reads + (IF o.kind \in {"discarded", "skipped"} THEN 1 ELSE 0)]

\* StatsAfter counting a read as passed before the minimum-length test
StatsAfter_PassedBeforeLengthTest(s, o) ==
    [total_reads |-> s.total_reads + 1,
     passed_reads |->
         s.passed_reads
         + (IF o.kind = "passed" \/ o.reason = "min_length" THEN 1 ELSE 0),
     discarded_reads |->
         s.discarded_reads + (IF o.kind = "discarded" THEN 1 ELSE 0)]

\* the counter updates of one loop iteration
StatsAfter(s, o) ==
    [total_reads |-> s.total_reads + 1,
     passed_reads |-> s.passed_reads + (IF o.kind = "passed" THEN 1 ELSE 0),
     discarded_reads |->
         s.discarded_reads + (IF o.kind = "discarded" THEN 1 ELSE 0)]

\* WriteRecord writing a bare "+" line instead of the record's own
WriteRecord_BarePlus(out, rec, o) ==
    Append(out, [header |-> rec.header, sequence |-> o.sequence,
                 plus_line |-> PlusLine, quality |-> o.quality])

\* output_handle.write(f"{header}\n{sequence}\n{plus_line}\n{quality}\n")
WriteRecord(out, rec, o) ==
    Append(out, [header |-> rec.header, sequence |-> o.sequence,
                 plus_line |-> rec.plus_line, quality |-> o.quality])

Init ==
    /\ pc = "main"
    /\ args \in ArgsSet
    /\ input_exists \in BOOLEAN
    /\ infile \in Streams
    /\ (~input_exists => infile = <<>>)
    /\ pos = 0
    /\ stats = ZeroStats
    /\ output_handle = "none"
    /\ outfile = <<>>
    /\ stderr = <<>>
    /\ call = NoCall
    /\ ret = NoRet
    /\ prev = EmptyPair

\* main(): os.path.exists(args.input) fails
MainInputNotFound ==
    /\ pc = "main"
    /\ ~input_exists
    /\ stderr' = Append(stderr, [kind |-> "error", what |-> "input_not_found", read |-> 0])
    /\ pc' = "exit"
    /\ UNCHANGED <<args, input_exists, infile, pos, stats, output_handle, outfile>>
    /\ UNCHANGED trimVars

\* main(): only one of --window_size and --window_threshold is given
MainWindowArgsRejected ==
    /\ pc = "main"
    /\ input_exists
    /\ WindowArgsError(args)
    /\ stderr' = Append(stderr, [kind |-> "error", what |-> "window_args", read |-> 0])
    /\ pc' = "exit"
    /\ UNCHANGED <<args, input_exists, infile, pos, stats, output_handle, outfile>>
    /\ UNCHANGED trimVars

\* main() calls process_fastq, which zeroes the counters and opens the files
MainCallsProcessFastq ==
    /\ pc = "main"
    /\ input_exists
    /\ ~WindowArgsError(args)
    /\ stats' = ZeroStats
    /\ output_handle' = "open"
    /\ outfile' = <<>>
    /\ pos' = 0
    /\ pc' = "loop"
    /\ UNCHANGED <<args, input_exists, infile, stderr>>
    /\ UNCHANGED trimVars

\* readline() returns an empty header: no line is left, or the line is blank
AtEndOfFile ==
    IF pos >= Len(infile) THEN TRUE ELSE infile[pos + 1].header = <<>>

\* one iteration of the while loop of process_fastq on the next record
LoopIteration ==
    /\ pc = "loop"
    /\ ~AtEndOfFile
    /\ LET rec == infile[pos + 1]
           o == ProcessRecord(rec, args)
           newstats == StatsAfter(stats, o)
       IN  /\ stats' = newstats
           /\ stderr' = IF o.kind = "skipped"
                        THEN Append(stderr, [kind |-> "warning", what |-> o.reason,
                                             read |-> newstats.total_reads])
                        ELSE stderr
           /\ outfile' = IF o.kind = "passed"
                         THEN WriteRecord(outfile, rec, o)
                         ELSE outfile
    /\ pos' = pos + 1
    /\ UNCHANGED <<pc, args, input_exists, infile, output_handle>>
    /\ UNCHANGED trimVars

\* "if not header: break", output_handle.close() and return stats
LoopBreak ==
    /\ pc = "loop"
    /\ AtEndOfFile
    /\ output_handle' = "closed"
    /\ pc' = "summary"
    /\ UNCHANGED <<args, input_exists, infile, pos, stats, outfile, stderr>>
    /\ UNCHANGED trimVars

\* main() prints the summary; the percentages divide by total_reads
PrintSummary ==
    /\ pc = "summary"
    /\ pc' = IF stats.total_reads = 0 THEN "ZeroDivisionError" ELSE "done"
    /\ UNCHANGED streamVars
    /\ UNCHANGED trimVars

Next ==
    \/ MainInputNotFound
    \/ MainWindowArgsRejected
    \/ MainCallsProcessFastq
    \/ LoopIteration
    \/ LoopBreak
    \/ PrintSummary

Spec == Init /\ [][Next]_vars

(***************************************************************************)
(* SpecTrim: the two trimming functions applied to drawn arguments, then   *)
(* applied again to their own result or to the same read with a higher     *)
(* threshold.                                                              *)
(***************************************************************************)
InitTrim ==
    /\ pc = "call"
    /\ call \in TrimCalls
    /\ ret = NoRet
    /\ prev = EmptyPair
    /\ StreamIdle

CallBaseTrim ==
    /\ pc = "call"
    /\ ret' = [fn |-> "base_trim",
               out |-> base_trim(call.sequence, call.quality, call.threshold)]
    /\ pc' = "ret"
    /\ UNCHANGED <<call, prev>>
    /\ UNCHANGED streamVars

CallWindowTrim ==
    /\ pc = "call"
    /\ ret' = [fn |-> "window_trim",
               out |-> window_trim(call.sequence, call.quality,
                                   call.window_size, call.threshold)]
    /\ pc' = "ret"
    /\ UNCHANGED <<call, prev>>
    /\ UNCHANGED streamVars

\* base_trim on the output of base_trim, same threshold
ReapplyBaseTrim ==
    /\ pc = "ret"
    /\ ret.fn = "base_trim"
    /\ prev' = ret.out
    /\ ret' = [fn |-> "base_trim",
               out |-> base_trim(ret.out[1], ret.out[2], call.threshold)]
    /\ pc' = "again"
    /\ UNCHANGED call
    /\ UNCHANGED streamVars

\* window_trim on the output of window_trim, same window_size and threshold
ReapplyWindowTrim ==
    /\ pc = "ret"
    /\ ret.fn = "window_trim"
    /\ prev' = ret.out
    /\ ret' = [fn |-> "window_trim",
               out |-> window_trim(ret.out[1], ret.out[2],
                                   call.window_size, call.threshold)]
    /\ pc' = "again"
    /\ UNCHANGED call
    /\ UNCHANGED streamVars

\* base_trim on the same read with a threshold t2 >= the first threshold
RaiseBaseThreshold ==
    /\ pc = "ret"
    /\ ret.fn = "base_trim"
    /\ \E t2 \in Thresholds :
          /\ t2 >= call.threshold
          /\ prev' = ret.out
          /\ call' = [call EXCEPT !.threshold = t2]
          /\ ret' = [fn |-> "base_trim",
                     out |-> base_trim(call.sequence, call.quality, t2)]
    /\ pc' = "raised"
    /\ UNCHANGED streamVars

NextTrim ==
    \/ CallBaseTrim
    \/ CallWindowTrim
    \/ ReapplyBaseTrim
    \/ ReapplyWindowTrim
    \/ RaiseBaseThreshold

SpecTrim == InitTrim /\ [][NextTrim]_vars

(***************************************************************************)
(* SpecAll: the program used either way, as the command-line run or as the *)
(* two trimming functions called directly.                                 *)
(***************************************************************************)
InitAll == Init \/ InitTrim

NextAll == Next \/ NextTrim

SpecAll == InitAll /\ [][NextAll]_vars

(***************************************************************************)
(* Properties of the trimming functions, checked under SpecTrim.           *)
(***************************************************************************)
\* every base of the read decodes to a score below the threshold
AllBelow(quality, threshold) ==
    \A k \in 1..Len(quality) : phred_to_score(quality[k]) < threshold

Returned(fn) == pc = "ret" /\ ret.fn = fn

\* C1: for a read of any length whose every score is below the threshold,
\* base_trim returns the empty sequence and the empty quality string.
C1_EdgeFullDiscard ==
    (Returned("base_trim") /\ AllBelow(call.quality, call.threshold))
        => ret.out = EmptyPair

\* C2: raising the threshold never increases the length base_trim keeps:
\* for t1 <= t2, len(base_trim(read, t2)) <= len(base_trim(read, t1)).
C2_EdgeMonotone ==
    pc = "raised" => Len(ret.out[1]) <= Len(prev[1])

\* C4 as stated: for a read of any length, shorter than window_size
\* included, whose every score is below the threshold, window_trim returns
\* the empty pair.
C4_WindowFullDiscardAnyLength ==
    (Returned("window_trim") /\ AllBelow(call.quality, call.threshold))
        => ret.out = EmptyPair

\* C4 amended: for a read of length >= window_size whose every score is
\* below the threshold, window_trim returns the empty pair.
C4_WindowFullDiscard ==
    (/\ Returned("window_trim")
     /\ AllBelow(call.quality, call.threshold)
     /\ Len(call.sequence) >= call.window_size)
        => ret.out = EmptyPair

C4_Witness ==
    /\ Returned("window_trim")
    /\ AllBelow(call.quality, call.threshold)
    /\ Len(call.sequence) > call.window_size
    /\ ret.out = EmptyPair

\* C6: base_trim applied with the same threshold to the output of base_trim
\* returns that output unchanged, sequence and quality.
C6_EdgeIdempotent ==
    (pc = "again" /\ ret.fn = "base_trim") => ret.out = prev

C6_Witness ==
    /\ pc = "again"
    /\ ret.fn = "base_trim"
    /\ prev # EmptyPair
    /\ Len(prev[1]) < Len(call.sequence)
    /\ ret.out = prev

\* C7: a read strictly shorter than window_size comes back from window_trim
\* unchanged, whatever its scores and the threshold.
C7_WindowShortCircuit ==
    (Returned("window_trim") /\ Len(call.sequence) < call.window_size)
        => ret.out = <<call.sequence, call.quality>>

C7_Witness ==
    /\ Returned("window_trim")
    /\ Len(call.sequence) < call.window_size
    /\ Len(call.sequence) > 0
    /\ AllBelow(call.quality, call.threshold)
    /\ ret.out = <<call.sequence, call.quality>>

\* C8: window_trim on "ACGTACGTAC" with scores [10,10,10,30,30,30,30,10,10,10],
\* window_size 3 and threshold 25 finds left boundary 3 and right boundary 6
\* and returns "TACG" with the quality characters of indices 3 to 6.
C8_WindowLiteral ==
    (Returned("window_trim") /\ call = LiteralCall)
        => /\ WindowStart(Scores(call.quality), call.window_size, call.threshold) = 3
           /\ WindowEnd(Scores(call.quality), call.window_size, call.threshold) = 6
           /\ ret.out[1] = <<"T", "A", "C", "G">>
           /\ ret.out[2] = [k \in 1..4 |-> score_to_phred(30)]
           /\ ret.out[2] = SubSeq(LiteralQuality, 4, 7)

C8_Witness ==
    /\ Returned("window_trim")
    /\ call = LiteralCall
    /\ Len(ret.out[1]) = 4

(***************************************************************************)
(* Properties of the command-line run, checked under Spec.                 *)
(***************************************************************************)
\* the number of "Warning:" lines on stderr: the records skipped as invalid
Skipped ==
    Cardinality({k \in 1..Len(stderr) : stderr[k].kind = "warning"})

Finished == pc \in {"summary", "done", "ZeroDivisionError"}

EdgeOnlyArgs ==
    [base_threshold |-> Some(20), window_size |-> None,
     window_threshold |-> None, min_length |-> 1]

\* C3: the run on the single read "AAAA" with every score 5, edge threshold
\* 20, no window settings and min_length 1 ends with discarded_reads = 1,
\* passed_reads = 0 and nothing written.
C3_LowQualityReadDiscarded ==
    (Finished /\ infile = <<LowAAAA>> /\ args = EdgeOnlyArgs)
        => /\ stats.discarded_reads = 1
           /\ stats.passed_reads = 0
           /\ outfile = <<>>

C5_Inv ==
    stats.total_reads = stats.passed_reads + stats.discarded_reads + Skipped

C5_Step ==
    (pc = "loop" /\ pos' = pos + 1)
        => /\ stats'.total_reads = stats.total_reads + 1
           /\ stats'.passed_reads - stats.passed_reads \in {0, 1}
           /\ stats'.discarded_reads - stats.discarded_reads \in {0, 1}
           /\ Skipped' - Skipped \in {0, 1}
           /\ (stats'.passed_reads - stats.passed_reads)
              + (stats'.discarded_reads - stats.discarded_reads)
              + (Skipped' - Skipped) = 1

\* C5: at every point of the run total_reads = passed_reads + discarded_reads
\* + the number of records skipped as invalid, and each record read adds one
\* to total_reads and one to exactly one of the three.
C5_Conservation == [](C5_Inv) /\ [][C5_Step]_vars

C5_Witness ==
    /\ Finished
    /\ pos = 2
    /\ Skipped = 1
    /\ stats.discarded_reads = 1
    /\ stats.total_reads = 2

BothWindowArgs(a) == a.window_size # None /\ a.window_threshold # None

\* the record is valid, survives base_trim, and comes out of window_trim
\* shorter than min_length
EdgePassesWindowShortens(rec, a) ==
    /\ StartsWithAt(rec.header)
    /\ Len(rec.sequence) = Len(rec.quality)
    /\ a.base_threshold # None
    /\ BothWindowArgs(a)
    /\ LET b == base_trim(rec.sequence, rec.quality, Value(a.base_threshold))
       IN  /\ b[1] # <<>>
           /\ Len(window_trim(b[1], b[2], Value(a.window_size),
                              Value(a.window_threshold))[1]) < a.min_length

C9_Written ==
    \A k \in 1..Len(outfile) : Len(outfile[k].sequence) >= args.min_length

C9_Step ==
    (pc = "loop" /\ pos' = pos + 1 /\ EdgePassesWindowShortens(infile[pos + 1], args))
        => /\ stats'.discarded_reads = stats.discarded_reads + 1
           /\ stats'.passed_reads = stats.passed_reads
           /\ outfile' = outfile

\* C9: every record written has trimmed length >= min_length, and a read that
\* survives base_trim but leaves window_trim shorter than min_length is
\* counted in discarded_reads, not in passed_reads, and is not written.
C9_MinLengthFilter == [](C9_Written) /\ [][C9_Step]_vars

C9_Witness ==
    /\ pc = "loop"
    /\ pos = 1
    /\ EdgePassesWindowShortens(infile[1], args)
    /\ infile[1] = DipRead
    /\ stats.discarded_reads = 1
    /\ stats.passed_reads = 0
    /\ outfile = <<>>

ExactlyOneWindowArg ==
    (args.window_size = None) # (args.window_threshold = None)

Invalid(rec) ==
    \/ ~(Len(rec.header) >= 1 /\ rec.header[1] = "@")
    \/ Len(rec.sequence) # Len(rec.quality)

C11_Step ==
    (pc = "loop" /\ pos' = pos + 1 /\ Invalid(infile[pos + 1]))
        => /\ stats'.total_reads = stats.total_reads + 1
           /\ stats'.passed_reads = stats.passed_reads
           /\ stats'.discarded_reads = stats.discarded_reads
           /\ outfile' = outfile
           /\ Skipped' = Skipped + 1
           /\ pc' = "loop"

\* C11: a record that fails the structural tests (header not starting with
\* '@', or sequence and quality of different lengths) adds one to
\* total_reads only: passed_reads and discarded_reads stay, nothing is
\* written, a warning is issued and the loop goes on to the next record.
C11_InvalidSkipped == [][C11_Step]_vars

C11_Witness ==
    /\ pc = "loop"
    /\ pos = 2
    /\ Invalid(infile[1])
    /\ Len(infile[1].sequence) > Len(infile[1].quality)
    /\ stats = [total_reads |-> 2, passed_reads |-> 1, discarded_reads |-> 0]
    /\ Len(outfile) = 1
    /\ Skipped = 1

\* the records the first n records of the input leave in the output
RECURSIVE KeptRecords(_)
KeptRecords(n) ==
    IF n = 0 THEN <<>>
    ELSE LET rec == infile[n]
             o == ProcessRecord(rec, args)
         IN  IF o.kind = "passed"
             THEN Append(KeptRecords(n - 1),
                         [header |-> rec.header, sequence |-> o.sequence,
                          plus_line |-> rec.plus_line, quality |-> o.quality])
             ELSE KeptRecords(n - 1)

\* C12: the output holds exactly the kept records of the input read so far,
\* in input order, each with the header and "+" line of its input record and
\* the trimmed sequence and quality.
C12_SinkInOrder ==
    pc \in {"loop", "summary", "done", "ZeroDivisionError"}
        => outfile = KeptRecords(pos)

C12_Witness ==
    /\ Finished
    /\ pos = 2
    /\ Len(outfile) = 2
    /\ outfile[1].header # outfile[2].header
    /\ outfile[1].plus_line # outfile[2].plus_line
    /\ Len(outfile[1].sequence) < Len(infile[1].sequence)
    /\ outfile = KeptRecords(pos)

(***************************************************************************)
(* SpecCodec: each codec function applied to a drawn value, then the other *)
(* one applied to the result.  The drawn values reach a little beyond the  *)
(* Sanger ranges [0,93] and [33,126].                                      *)
(***************************************************************************)
CodecScores == -3..96

CodecChars == 30..129

InitCodec ==
    /\ \/ pc = "score" /\ call \in [value : CodecScores]
       \/ pc = "char" /\ call \in [value : CodecChars]
    /\ ret = NoRet
    /\ prev = EmptyPair
    /\ StreamIdle

EncodeScore ==
    /\ pc = "score"
    /\ ret' = [fn |-> "score_to_phred", out |-> score_to_phred(call.value)]
    /\ pc' = "encoded"
    /\ UNCHANGED <<call, prev>>
    /\ UNCHANGED streamVars

DecodeEncoded ==
    /\ pc = "encoded"
    /\ prev' = ret.out
    /\ ret' = [fn |-> "phred_to_score", out |-> phred_to_score(ret.out)]
    /\ pc' = "score_round_trip"
    /\ UNCHANGED call
    /\ UNCHANGED streamVars

DecodeChar ==
    /\ pc = "char"
    /\ ret' = [fn |-> "phred_to_score", out |-> phred_to_score(call.value)]
    /\ pc' = "decoded"
    /\ UNCHANGED <<call, prev>>
    /\ UNCHANGED streamVars

EncodeDecoded ==
    /\ pc = "decoded"
    /\ prev' = ret.out
    /\ ret' = [fn |-> "score_to_phred", out |-> score_to_phred(ret.out)]
    /\ pc' = "char_round_trip"
    /\ UNCHANGED call
    /\ UNCHANGED streamVars

NextCodec ==
    \/ EncodeScore
    \/ DecodeEncoded
    \/ DecodeChar
    \/ EncodeDecoded

SpecCodec == InitCodec /\ [][NextCodec]_vars

\* C13: decoding the encoding of a score in [0,93] gives the score back,
\* encoding the decoding of a character in [33,126] gives the character
\* back, and decoding is ord(c) - 33 for every character, never clamped.
C13_CodecRoundTrip ==
    /\ (pc = "score_round_trip" /\ call.value \in 0..93)
          => (ret.out = call.value /\ prev \in 33..126)
    /\ (pc = "char_round_trip" /\ call.value \in 33..126)
          => (ret.out = call.value /\ prev \in 0..93)
    /\ pc = "decoded" => ret.out = call.value - 33

C13_Witness ==
    /\ pc = "score_round_trip"
    /\ call.value = 60
    /\ prev = 93
    /\ ret.out = 60

\* C14: the run on the single read "AAAA" with every score 40, edge
\* threshold 20, no window settings and min_length 1 writes the read
\* unchanged and ends with passed_reads = 1 and discarded_reads = 0.
C14_HighQualityReadKept ==
    (Finished /\ infile = <<HighAAAA>> /\ args = EdgeOnlyArgs)
        => /\ outfile = <<HighAAAA>>
           /\ stats = [total_reads |-> 1, passed_reads |-> 1, discarded_reads |-> 0]

C14_Witness ==
    /\ pc = "done"
    /\ infile = <<HighAAAA>>
    /\ args = EdgeOnlyArgs
    /\ outfile = <<HighAAAA>>
    /\ output_handle = "closed"

\* the 1-based positions of the bases whose score meets the threshold
Qualifying(quality, threshold) ==
    {k \in 1..Len(quality) : phred_to_score(quality[k]) >= threshold}

SetMin(S) == CHOOSE x \in S : \A y \in S : x <= y

SetMax(S) == CHOOSE x \in S : \A y \in S : x >= y

\* C15: when some base meets the threshold, base_trim returns exactly the
\* bases from the first qualifying one to the last qualifying one: both end
\* bases kept qualify and every base removed is below the threshold.
C15_EdgeSpan ==
    (Returned("base_trim") /\ Qualifying(call.quality, call.threshold) # {})
        => LET first == SetMin(Qualifying(call.quality, call.threshold))
               last == SetMax(Qualifying(call.quality, call.threshold))
           IN  /\ ret.out[1] = SubSeq(call.sequence, first, last)
               /\ ret.out[2] = SubSeq(call.quality, first, last)
               /\ phred_to_score(Head(ret.out[2])) >= call.threshold
               /\ phred_to_score(ret.out[2][Len(ret.out[2])]) >= call.threshold
               /\ \A k \in 1..Len(call.quality) :
                     (k < first \/ k > last)
                         => phred_to_score(call.quality[k]) < call.threshold

C15_Witness ==
    /\ Returned("base_trim")
    /\ Len(call.sequence) = 4
    /\ Qualifying(call.quality, call.threshold) = {2, 3}
    /\ Len(ret.out[1]) = 2
    /\ ret.out[1] = SubSeq(call.sequence, 2, 3)

\* the 0-based start indices of the windows of window_size consecutive
\* scores whose sum is at least threshold * window_size
QualifyingWindows(scores, window_size, threshold) ==
    {j \in 0..(Len(scores) - window_size) :
        PySum(SubSeq(scores, j + 1, j + window_size)) >= threshold * window_size}

LongEnough == Len(call.sequence) >= call.window_size

\* C16: for a read of length >= window_size >= 1, window_trim returns the
\* empty pair when no window qualifies (sum >= threshold * window_size), and
\* otherwise the slice from s to e + window_size - 1, s the smallest and e the
\* largest start index of a qualifying window.
C16_WindowSpan ==
    (Returned("window_trim") /\ LongEnough)
        => LET W == QualifyingWindows(Scores(call.quality), call.window_size,
                                      call.threshold)
           IN  IF W = {}
               THEN ret.out = EmptyPair
               ELSE /\ ret.out[1] = SubSeq(call.sequence, SetMin(W) + 1,
                                           SetMax(W) + call.window_size)
                    /\ ret.out[2] = SubSeq(call.quality, SetMin(W) + 1,
                                           SetMax(W) + call.window_size)

C16_Witness ==
    /\ Returned("window_trim")
    /\ call.window_size = 2
    /\ Len(call.sequence) = 4
    /\ QualifyingWindows(Scores(call.quality), call.window_size, call.threshold)
          = {1}
    /\ ret.out[1] = SubSeq(call.sequence, 2, 3)

\* C19: in window_trim on a read of length >= window_size >= 1, when the left
\* scan finds a window the right scan finds one too, end_index >=
\* start_index + window_size - 1, and a non-empty result has length >=
\* window_size.
C19_WindowBoundariesOrdered ==
    (Returned("window_trim") /\ LongEnough)
        => LET start_index == WindowStart(Scores(call.quality), call.window_size,
                                          call.threshold)
               end_index == WindowEnd(Scores(call.quality), call.window_size,
                                      call.threshold)
           IN  /\ start_index # NotFound
                    => /\ end_index # NotFound
                       /\ end_index >= start_index + call.window_size - 1
                       /\ Len(ret.out[1]) = end_index - start_index + 1
               /\ ret.out # EmptyPair => Len(ret.out[1]) >= call.window_size

C19_Witness ==
    /\ Returned("window_trim")
    /\ call.window_size = 3
    /\ Len(call.sequence) = 4
    /\ WindowStart(Scores(call.quality), call.window_size, call.threshold) = 1
    /\ WindowEnd(Scores(call.quality), call.window_size, call.threshold) = 3
    /\ Len(ret.out[1]) = 3

\* C20: window_trim applied with the same window_size and threshold to the
\* output of window_trim returns that output unchanged, whether the output
\* is empty, shorter than the window, or a trimmed read.
C20_WindowIdempotent ==
    (pc = "again" /\ ret.fn = "window_trim") => ret.out = prev

C20_Witness ==
    /\ pc = "again"
    /\ ret.fn = "window_trim"
    /\ prev # EmptyPair
    /\ Len(prev[1]) < Len(call.sequence)
    /\ Len(prev[1]) >= call.window_size
    /\ ret.out = prev

AllTrimArgs(a) == a.base_threshold # None /\ BothWindowArgs(a)

C17_Step ==
    (/\ pc = "loop"
     /\ pos' = pos + 1
     /\ ~Invalid(infile[pos + 1])
     /\ AllTrimArgs(args))
        => LET rec == infile[pos + 1]
               b == base_trim(rec.sequence, rec.quality, Value(args.base_threshold))
               w == window_trim(b[1], b[2], Value(args.window_size),
                                Value(args.window_threshold))
           IN  IF b[1] = <<>> \/ w[1] = <<>> \/ Len(w[1]) < args.min_length
               THEN /\ outfile' = outfile
                    /\ stats'.discarded_reads = stats.discarded_reads + 1
               ELSE /\ outfile' = Append(outfile, [rec EXCEPT !.sequence = w[1],
                                                              !.quality = w[2]])
                    /\ stats'.passed_reads = stats.passed_reads + 1

\* C17: with edge_threshold, window_size and window_threshold all set,
\* window_trim is applied to the output of base_trim, not to the read as
\* read: a kept record is window_trim(base_trim(read)), the test for a read
\* shorter than the window sees the edge-trimmed length, and an empty
\* base_trim result discards the read.
C17_PipelineOrder == [][C17_Step]_vars

\* scores [5,40,5] with base threshold 20 and window 2 / 25: base_trim leaves
\* one base, shorter than the window, which is kept; window_trim on the read
\* as read would find no window
C17_Witness ==
    /\ pc = "loop"
    /\ pos = 1
    /\ AllTrimArgs(args)
    /\ args.min_length = 1
    /\ Scores(infile[1].quality) = <<5, 40, 5>>
    /\ window_trim(infile[1].sequence, infile[1].quality,
                   Value(args.window_size), Value(args.window_threshold))
          = EmptyPair
    /\ Len(outfile) = 1
    /\ outfile[1].sequence = <<"C">>
    /\ outfile[1].quality = <<score_to_phred(40)>>

\* out is (sequence[a:b], quality[a:b]) for one pair 0 <= a <= b <= len
CommonSlice(out, sequence, quality) ==
    \E a \in 0..Len(sequence) : \E b \in a..Len(sequence) :
        /\ out[1] = SubSeq(sequence, a + 1, b)
        /\ out[2] = SubSeq(quality, a + 1, b)

\* C18: base_trim and window_trim return (sequence[a:b], quality[a:b]) for
\* one common pair a <= b, so both parts have the same length, and every
\* record written has len(sequence) = len(quality) <= the length of the
\* input record it is a slice of.
C18_OnlySlices ==
    /\ pc \in {"ret", "again", "raised"}
          => /\ CommonSlice(ret.out, call.sequence, call.quality)
             /\ Len(ret.out[1]) = Len(ret.out[2])
    /\ pc \in {"loop", "summary", "done", "ZeroDivisionError"}
          => \A k \in 1..Len(outfile) :
                /\ Len(outfile[k].sequence) = Len(outfile[k].quality)
                /\ \E j \in 1..pos :
                      /\ outfile[k].header = infile[j].header
                      /\ Len(infile[j].sequence) = Len(infile[j].quality)
                      /\ Len(outfile[k].sequence) <= Len(infile[j].sequence)
                      /\ CommonSlice(<<outfile[k].sequence, outfile[k].quality>>,
                                     infile[j].sequence, infile[j].quality)

C18_Witness ==
    /\ pc = "loop"
    /\ pos = 2
    /\ Len(outfile) = 2
    /\ Len(outfile[1].sequence) = 2
    /\ Len(infile[1].sequence) = 4
    /\ Len(infile[2].sequence) = 3
    /\ outfile[1].sequence = SubSeq(infile[1].sequence, 1, 2)
    /\ outfile[2].sequence = SubSeq(infile[2].sequence, 2, 3)

C21_Returns ==
    (pc \in {"ret", "again", "raised"} /\ ret.fn = "base_trim")
        => /\ (pc # "again" => (ret.out = EmptyPair <=> call.sequence = <<>>))
           /\ (pc = "again" => (ret.out = EmptyPair <=> prev = EmptyPair))

C21_Step ==
    (/\ pc = "loop"
     /\ pos' = pos + 1
     /\ ~Invalid(infile[pos + 1])
     /\ args.base_threshold # None)
        => /\ ProcessRecord(infile[pos + 1], args).reason = "base_trim"
                 <=> infile[pos + 1].sequence = <<>>
           /\ infile[pos + 1].sequence = <<>>
                 => /\ stats'.discarded_reads = stats.discarded_reads + 1
                    /\ outfile' = outfile

C22_Inv == stats.passed_reads = Len(outfile)

C22_Step ==
    /\ stats'.total_reads >= stats.total_reads
    /\ stats'.passed_reads >= stats.passed_reads
    /\ stats'.discarded_reads >= stats.discarded_reads
    /\ outfile' # outfile
          => /\ Len(outfile') = Len(outfile) + 1
             /\ SubSeq(outfile', 1, Len(outfile)) = outfile
             /\ stats'.passed_reads = stats.passed_reads + 1
             /\ stats'.discarded_reads = stats.discarded_reads
    /\ stats'.discarded_reads # stats.discarded_reads
          => /\ stats'.discarded_reads = stats.discarded_reads + 1
             /\ stats'.passed_reads = stats.passed_reads
             /\ outfile' = outfile

\* C22: at every point of the run passed_reads is the number of records
\* written so far and no counter ever decreases; a step that writes a record
\* adds one to passed_reads and leaves discarded_reads, a step that discards
\* adds one to discarded_reads and writes nothing.
C22_CountersFollowSink == [](C22_Inv) /\ [][C22_Step]_vars

C22_Witness ==
    /\ pc = "done"
    /\ pos = 2
    /\ Len(outfile) = 1
    /\ stats = [total_reads |-> 2, passed_reads |-> 1, discarded_reads |-> 1]
    /\ ProcessRecord(infile[1], args).reason = "min_length"

====
